---- MODULE Spec2Model ----
(***************************************************************************)
(* Model of the Streamlit dashboard pages of my_app/pages:                 *)
(*   1_Cyber Security.py (incidents), 1_IT.py (tickets) and                *)
(*   1_Data_Science.py (datasets).                                         *)
(*                                                                         *)
(* A pandas DataFrame is a record [cols, rows]: cols is the set of column  *)
(* names, rows the sequence of rows in index order.  The index is always   *)
(* the RangeIndex 0..n-1 (read_csv(index_col=False), pd.DataFrame(dict),   *)
(* concat(ignore_index=True) and reset_index(drop=True) all produce it),   *)
(* so a row label is its position.  A row is a record over the five        *)
(* columns the code touches; a cell of a column the frame does not have,   *)
(* or a cell pandas filled in while aligning columns, holds the missing    *)
(* value (NaN for numbers, NaNStr for strings).                            *)
(***************************************************************************)
EXTENDS Integers, Sequences, FiniteSets, TLC

VARIABLES
    keys,       \* the keys present in st.session_state
    logged_in,  \* st.session_state.logged_in
    username,   \* st.session_state.username
    df,         \* st.session_state[p] for the three table keys p
    messages,   \* st.session_state.messages (the chat history)
    file,       \* the CSV file of each page, as pd.read_csv finds it
    now,        \* datetime.now()
    msg,        \* what the last handler call reported with st.success / st.error
    ret,        \* what the last handler call returned
    ops,        \* number of handler calls so far
    pc,         \* position of the running script ("idle" between runs)
    run,        \* the running script run: page, widget event, what it did
    http        \* number of HTTP requests sent to the chat API

vars == <<keys, logged_in, username, df, messages, file, now, msg, ret, ops, pc, run, http>>

----------------------------------------------------------------------------
(* Bounds of the model *)

MaxOps == 3         \* handler calls in one session
MaxCsvRows == 3     \* rows of a CSV file
MaxEffects == 1     \* form submissions and chat prompts in one browser session

----------------------------------------------------------------------------
(* Values *)

NaN == 0 - 1            \* missing number (NaN / NaT)
NoneId == 0 - 2         \* Python None passed as an id
NaNStr == "NaN"         \* missing string

Pages == {"incidents_df", "tickets_df", "datasets_df"}

NewRowCols == {"id", "title", "severity", "status", "timestamp"}
UpdateKeys == {"title", "severity", "status"}

Titles == {"A", "B"}

EmptyDF == [cols |-> {}, rows |-> <<>>]

----------------------------------------------------------------------------
(* pandas, as far as the pages use it *)

Missing(c) == IF c \in {"id", "timestamp"} THEN NaN ELSE NaNStr

\* df.empty: no rows or no columns.
IsEmpty(t) == Len(t.rows) = 0 \/ t.cols = {}

\* series == value, elementwise: a missing value equals nothing.
EqId(a, b) == a # NaN /\ b # NaN /\ a = b

\* df['id'].max(): the largest id that is not missing, NaN when there is none.
SeriesMax(t) ==
    LET present == {t.rows[i].id : i \in 1..Len(t.rows)} \ {NaN}
    IN IF present = {} THEN NaN
       ELSE CHOOSE m \in present : \A x \in present : x <= m

\* NaN + 1 is NaN.
PlusOne(x) == IF x = NaN THEN NaN ELSE x + 1

\* The index labels of the rows whose id equals the given id.
MatchIdx(t, id) == {i \in 1..Len(t.rows) : EqId(t.rows[i].id, id)}

\* A row restricted to the columns of a frame.
Project(r, cols) == [c \in NewRowCols |-> IF c \in cols THEN r[c] ELSE Missing(c)]

----------------------------------------------------------------------------
(* The CRUD helpers of the three pages.  A message is the level it is shown
   at (st.success, st.error) and its text without the record's noun and id. *)

\* One default id for the three pages.
DefaultId_same(p) == 1000

\* The id handle_add_* gives when the table has no id to count from.
DefaultId(p) == IF p = "datasets_df" THEN 1 ELSE 1000

\* get_incident_row / get_ticket_row / get_dataset_row.
\* The result is [kind, row]: "none" for None, "row" for a Series,
\* "KeyError" when df['id'] raises because the frame has no such column.
NoRow == [c \in NewRowCols |-> Missing(c)]

get_row(t, id) ==
    IF id = NoneId THEN [kind |-> "none", row |-> NoRow]
    ELSE IF "id" \notin t.cols THEN [kind |-> "KeyError", row |-> NoRow]
    ELSE IF MatchIdx(t, id) # {}
         THEN [kind |-> "row",
               row |-> t.rows[CHOOSE i \in MatchIdx(t, id) : \A j \in MatchIdx(t, id) : i <= j]]
         ELSE [kind |-> "none", row |-> NoRow]

\* new_id with the "+ 1" forgotten.
new_id_max(p, t) ==
    IF ~IsEmpty(t) /\ "id" \in t.cols THEN SeriesMax(t) ELSE DefaultId(p)

\* new_id of handle_add_*.
new_id(p, t) ==
    IF ~IsEmpty(t) /\ "id" \in t.cols THEN PlusOne(SeriesMax(t)) ELSE DefaultId(p)

new_row(p, t, new_data, clock) ==
    [id |-> new_id(p, t), title |-> new_data.title, severity |-> new_data.severity,
     status |-> "Open", timestamp |-> clock]

\* pd.concat([current_df, new_row]): the new row at the bottom.
add_table_bottom(p, t, new_data, clock) ==
    [cols |-> NewRowCols \cup t.cols,
     rows |-> Append(t.rows, [id |-> new_id(p, t), title |-> new_data.title,
                              severity |-> new_data.severity, status |-> "Open",
                              timestamp |-> clock])]

\* pd.concat([new_row, current_df], ignore_index=True)
add_table(p, t, new_data, clock) ==
    [cols |-> NewRowCols \cup t.cols,
     rows |-> <<new_row(p, t, new_data, clock)>> \o t.rows]

add_msg(p) == [level |-> "success", text |-> "added successfully"]

\* handle_update_* assigning the column without the row labels.
update_table_all(t, id, updated_data) ==
    IF "id" \notin t.cols THEN t
    ELSE IF MatchIdx(t, id) # {}
         THEN [cols |-> t.cols \cup DOMAIN updated_data,
               rows |-> [i \in 1..Len(t.rows) |->
                          [c \in NewRowCols |->
                              IF c \in DOMAIN updated_data THEN updated_data[c]
                              ELSE t.rows[i][c]]]]
         ELSE t

\* handle_update_* reporting success whether or not a row was found.
update_msg_success(p, t, id) ==
    IF "id" \notin t.cols
    THEN [level |-> "error", text |-> "Cannot update: 'id' column is missing."]
    ELSE [level |-> "success", text |-> "updated successfully"]

\* handle_update_*: the frame after the call.
update_table(t, id, updated_data) ==
    IF "id" \notin t.cols THEN t
    ELSE IF MatchIdx(t, id) # {}
         THEN [cols |-> t.cols \cup DOMAIN updated_data,
               rows |-> [i \in 1..Len(t.rows) |->
                          IF EqId(t.rows[i].id, id)
                          THEN [c \in NewRowCols |->
                                  IF c \in DOMAIN updated_data THEN updated_data[c]
                                  ELSE t.rows[i][c]]
                          ELSE t.rows[i]]]
         ELSE t

update_msg(p, t, id) ==
    IF "id" \notin t.cols
    THEN [level |-> "error", text |-> "Cannot update: 'id' column is missing."]
    ELSE IF MatchIdx(t, id) # {}
         THEN [level |-> "success", text |-> "updated successfully"]
         ELSE [level |-> "error", text |-> "not found for update."]

\* The filter with == in place of !=.
KeepRow_eq(r, id) == EqId(r.id, id)

\* current_df[current_df['id'] != id].reset_index(drop=True)
KeepRow(r, id) == ~EqId(r.id, id)

RECURSIVE Filter(_, _)
Filter(rows, id) ==
    IF rows = <<>> THEN <<>>
    ELSE IF KeepRow(Head(rows), id) THEN <<Head(rows)>> \o Filter(Tail(rows), id)
         ELSE Filter(Tail(rows), id)

delete_table(t, id) ==
    IF "id" \notin t.cols THEN t
    ELSE [cols |-> t.cols, rows |-> Filter(t.rows, id)]

\* handle_delete_* without its missing-column guard: df['id'] raises.
delete_msg_noguard(p, t, id) ==
    IF "id" \notin t.cols
    THEN [level |-> "exception", text |-> "KeyError: 'id'"]
    ELSE IF Len(t.rows) > Len(Filter(t.rows, id))
         THEN [level |-> "success", text |-> "deleted successfully"]
         ELSE [level |-> "error", text |-> "not found for deletion."]

delete_msg(p, t, id) ==
    IF "id" \notin t.cols
    THEN [level |-> "error", text |-> "Cannot delete: 'id' column is missing."]
    ELSE IF Len(t.rows) > Len(delete_table(t, id).rows)
         THEN [level |-> "success", text |-> "deleted successfully"]
         ELSE [level |-> "error", text |-> "not found for deletion."]

----------------------------------------------------------------------------
(* The CSV file of a page and the initial load *)

\* Row n of the CSV file: ids 1, 2, then id 1 again with other contents,
\* then fresh ids.
CsvRow(n) ==
    CASE n = 1 -> [id |-> 1, title |-> "A", severity |-> "Low", status |-> "Open", timestamp |-> 1]
      [] n = 2 -> [id |-> 2, title |-> "B", severity |-> "Critical", status |-> "Closed", timestamp |-> 2]
      [] n = 3 -> [id |-> 1, title |-> "B", severity |-> "Critical", status |-> "Open", timestamp |-> 3]
      [] OTHER -> [id |-> n - 1, title |-> "A", severity |-> "Critical", status |-> "Closed", timestamp |-> n]

\* The headers of a CSV file: every column, no 'id' column, and the header
\* DATA/generate_tickets.py writes (no title, no timestamp).
CsvHeaders ==
    { NewRowCols,
      NewRowCols \ {"id"},
      {"id", "severity", "status", "description"} }

CsvTables ==
    { [cols |-> hn[1], rows |-> [i \in 1..hn[2] |-> Project(CsvRow(i), hn[1])]] :
        hn \in CsvHeaders \X (0..MaxCsvRows) }

Files ==
    {[kind |-> "missing", table |-> EmptyDF], [kind |-> "error", table |-> EmptyDF]}
      \cup {[kind |-> "ok", table |-> t] : t \in CsvTables}

MockIds(p) ==
    IF p = "tickets_df" THEN <<1001, 1002, 1003, 1004, 1005, 1006>>
    ELSE <<101, 102, 103, 104, 105, 106>>

MockTitles(p) ==
    IF p = "datasets_df"
    THEN <<"User Log", "Network Flow", "Email Headers", "Firewall Logs", "Endpoint Alerts", "Threat Intel">>
    ELSE <<"Phishing Campaign", "Server Breach", "DDoS Attack", "Misconfiguration", "Insider Threat", "Patching Failure">>

MockSeverity == <<"High", "Critical", "Medium", "Low", "Critical", "Medium">>
MockStatus == <<"Open", "In Progress", "Open", "Closed", "Open", "In Progress">>
MockDay == <<20, 25, 28, 15, 29, 22>>

Mock(p) ==
    [cols |-> NewRowCols,
     rows |-> [i \in 1..6 |->
                [id |-> MockIds(p)[i], title |-> MockTitles(p)[i], severity |-> MockSeverity[i],
                 status |-> MockStatus[i], timestamp |-> MockDay[i]]]]

\* load_initial_incidents / get_tickets_from_csv / load_initial_datasets
load_initial(p, f) ==
    CASE f.kind = "ok" -> f.table
      [] f.kind = "missing" -> Mock(p)
      [] OTHER -> EmptyDF

----------------------------------------------------------------------------------------------------------------------------------------
(* The handlers as operations on the session table *)

NoRet == [kind |-> "none", row |-> NoRow]
NoMsg == [level |-> "none", text |-> ""]

NewData == [title : Titles, severity : {"Low"}]

\* updated_data: no key, one key, two keys, and the three keys the update
\* form sends.
UpdateKeySets == {{}, {"status"}, {"title", "severity"}, UpdateKeys}

UpdateValue(k) ==
    CASE k = "title" -> "B"
      [] k = "severity" -> "Critical"
      [] k = "status" -> "Closed"

UpdatedData == { [k \in K |-> UpdateValue(k)] : K \in UpdateKeySets }

\* The ids a handler is called with: every id of the table, an id no row
\* has, and the missing value.
IdArgs(t) == {t.rows[i].id : i \in 1..Len(t.rows)} \cup {0, NaN}

handle_add(p, new_data) ==
    /\ p \in keys
    /\ ops < MaxOps
    /\ msg' = add_msg(p)
    /\ df' = [df EXCEPT ![p] = add_table(p, df[p], new_data, now)]
    /\ ret' = NoRet
    /\ now' = now + 1
    /\ ops' = ops + 1

handle_update(p, id, updated_data) ==
    /\ p \in keys
    /\ ops < MaxOps
    /\ msg' = update_msg(p, df[p], id)
    /\ df' = [df EXCEPT ![p] = update_table(df[p], id, updated_data)]
    /\ ret' = NoRet
    /\ ops' = ops + 1
    /\ UNCHANGED now

handle_delete(p, id) ==
    /\ p \in keys
    /\ ops < MaxOps
    /\ msg' = delete_msg(p, df[p], id)
    /\ df' = [df EXCEPT ![p] = delete_table(df[p], id)]
    /\ ret' = NoRet
    /\ ops' = ops + 1
    /\ UNCHANGED now

get_row_call(p, id) ==
    /\ p \in keys
    /\ ops < MaxOps
    /\ msg' = NoMsg
    /\ ret' = get_row(df[p], id)
    /\ ops' = ops + 1
    /\ UNCHANGED <<df, now>>

session == <<keys, logged_in, username, messages, file, pc, run, http>>

\* No call of get_ai_response in this run.
NoCall == [sent |-> <<>>, met |-> <<>>, result |-> "", raised |-> FALSE, requests |-> 0, waits |-> <<>>]

\* No metrics and no table on the screen.
NoMetrics == [shown |-> FALSE, total |-> 0, open |-> 0, critical |-> 0]
NoTable == [shown |-> FALSE, cols |-> {}, rows |-> <<>>]

NoRun == [page |-> "none", event |-> "none", logged |-> FALSE, shown |-> {}, chat |-> NoCall,
          view |-> "none", metrics |-> NoMetrics, table |-> NoTable]

\* A session in which one page has loaded its table: the frame read from
\* its CSV file, or the empty frame of a read that failed.  (The mock table
\* of a missing file is loaded in the sessions of AppSpec.)
Init ==
    \E p \in Pages, f \in Files \ {[kind |-> "missing", table |-> EmptyDF]} :
        /\ keys = {p, "logged_in", "username"}
        /\ logged_in = TRUE
        /\ username = "u"
        /\ df = [q \in Pages |-> IF q = p THEN load_initial(p, f) ELSE EmptyDF]
        /\ messages = <<>>
        /\ file = [q \in Pages |-> f]
        /\ now = 30
        /\ msg = NoMsg
        /\ ret = NoRet
        /\ ops = 0
        /\ pc = "idle"
        /\ run = NoRun
        /\ http = 0

Add == \E p \in Pages, d \in NewData : handle_add(p, d) /\ UNCHANGED session
Update == \E p \in Pages : \E id \in IdArgs(df[p]), d \in UpdatedData : handle_update(p, id, d) /\ UNCHANGED session
Delete == \E p \in Pages : \E id \in IdArgs(df[p]) : handle_delete(p, id) /\ UNCHANGED session
GetRow == \E p \in Pages : \E id \in IdArgs(df[p]) \cup {NoneId} : get_row_call(p, id) /\ UNCHANGED session

Next == Add \/ Update \/ Delete \/ GetRow

Spec == Init /\ [][Next]_vars

----------------------------------------------------------------------------
(* The chat helper of the Cyber Security and IT pages *)

MAX_RETRIES == 3

SYSTEM_INSTRUCTION == [role |-> "system", content |-> "You are a Data Science Specialist"]
Greeting == [role |-> "assistant", content |-> "Hello!"]

\* What one HTTP attempt meets: an answer, HTTP 401, another HTTP error
\* status, no response at all (connection failure, timeout), or an answer
\* whose JSON has not the expected shape.
Outcomes == {"ok", "401", "500", "conn", "other"}

Prompt == "q"

\* payload_data["messages"] of get_ai_response(prompt, history)
payload(prompt, history) ==
    <<SYSTEM_INSTRUCTION>> \o history \o <<[role |-> "user", content |-> prompt]>>

\* A backoff that waits one second every time.
wait_time_const(attempt) == 1

\* wait_time = 2 ** attempt
wait_time(attempt) == 2 ^ attempt

\* The except clause without its test for HTTP 401.
is_auth_error_never(status) == FALSE

\* response.status_code == 401
is_auth_error(status) == status = "401"

AuthError == "Authentication Error: The API Key is invalid or expired. Please check your key."
Failed == "Failed to get a response after several tries. Check your connection or API status."

\* The retry loop of get_ai_response from attempt k on.  status is the
\* status of the response the local variable holds ("unbound" before the
\* first response arrives); the result is the returned text, or the
\* exception that leaves the function, with the requests sent and the
\* seconds slept.
RECURSIVE attempts(_, _, _, _, _)
attempts(k, outs, status, sent, slept) ==
    LET o == outs[k + 1]
        st == IF o = "conn" THEN status ELSE o
    IN IF o = "ok"
       THEN [result |-> "answer", raised |-> FALSE, requests |-> sent + 1, waits |-> slept]
       ELSE IF o = "other"
       THEN [result |-> "An internal error occurred.", raised |-> FALSE, requests |-> sent + 1, waits |-> slept]
       ELSE IF st = "unbound"
       THEN [result |-> "UnboundLocalError", raised |-> TRUE, requests |-> sent + 1, waits |-> slept]
       ELSE IF is_auth_error(st)
       THEN [result |-> AuthError, raised |-> FALSE, requests |-> sent + 1, waits |-> slept]
       ELSE IF k < MAX_RETRIES - 1
       THEN attempts(k + 1, outs, st, sent + 1, Append(slept, wait_time(k)))
       ELSE [result |-> Failed, raised |-> FALSE, requests |-> sent + 1, waits |-> slept]

\* One call: what was sent, what each attempt met, and how the call ended.
get_ai_response(prompt, history, outs) ==
    LET r == attempts(0, outs, "unbound", 0, <<>>)
    IN [sent |-> payload(prompt, history), met |-> SubSeq(outs, 1, r.requests),
        result |-> r.result, raised |-> r.raised, requests |-> r.requests, waits |-> r.waits]

----------------------------------------------------------------------------
(* A session: script runs of the three pages *)

\* The pages that start with the login guard and end with the chat.
Guarded == {"incidents_df", "tickets_df"}

\* What the user did to start the run: opened the page or changed a widget
\* without effect, pressed 'Log out', submitted one of the CRUD forms, or
\* sent a chat prompt.
Events == {"view", "logout", "add", "update", "delete", "chat"}
Effects == {"add", "update", "delete", "chat"}

LoggedIn == "logged_in" \in keys /\ logged_in

StartRun ==
    /\ pc = "idle"
    /\ \E p \in Pages, e \in Events :
          /\ e \in Effects => ops < MaxEffects
          /\ run' = [NoRun EXCEPT !.page = p, !.event = e, !.logged = LoggedIn]
          /\ pc' = IF p \in Guarded THEN "ensure_keys" ELSE "init"
    /\ UNCHANGED <<keys, logged_in, username, df, messages, file, now, msg, ret, ops, http>>

\* "Ensure state keys exist"
EnsureKeys ==
    /\ pc = "ensure_keys"
    /\ logged_in' = IF "logged_in" \in keys THEN logged_in ELSE FALSE
    /\ username' = IF "username" \in keys THEN username ELSE ""
    /\ keys' = keys \cup {"logged_in", "username"}
    /\ pc' = "guard"
    /\ UNCHANGED <<df, messages, file, now, msg, ret, ops, run, http>>

\* The guard without st.stop().
guard_pc_nostop(logged) == "logout"

\* "Guard: if not logged in, send user back": st.stop() or st.switch_page()
\* ends the run.
guard_pc(logged) == IF logged THEN "logout" ELSE "idle"

LoginGuard ==
    /\ pc = "guard"
    /\ pc' = guard_pc(logged_in)
    /\ run' = [run EXCEPT !.shown = @ \cup {IF logged_in THEN "hello" ELSE "login_error"}]
    /\ UNCHANGED <<keys, logged_in, username, df, messages, file, now, msg, ret, ops, http>>

\* The logout button without st.switch_page().
logout_pc_stay(pressed) == "init"

\* "Logout button": st.switch_page("Home.py") ends the run.
logout_pc(pressed) == IF pressed THEN "idle" ELSE "init"

LogoutButton ==
    /\ pc = "logout"
    /\ IF run.event = "logout"
       THEN logged_in' = FALSE /\ username' = ""
       ELSE UNCHANGED <<logged_in, username>>
    /\ pc' = logout_pc(run.event = "logout")
    /\ UNCHANGED <<keys, df, messages, file, now, msg, ret, ops, run, http>>

\* The initialisation without its "not in st.session_state" test.
init_table_always(present, current, loaded) == loaded

\* "Initialize the DataFrame in Streamlit's session state if it doesn't exist"
init_table(present, current, loaded) == IF present THEN current ELSE loaded

InitTable ==
    /\ pc = "init"
    /\ df' = [df EXCEPT ![run.page] =
                 init_table(run.page \in keys, @, load_initial(run.page, file[run.page]))]
    /\ keys' = keys \cup {run.page}
    /\ pc' = "view"
    /\ UNCHANGED <<logged_in, username, messages, file, now, msg, ret, ops, run, http>>

after_view == IF run.page \in Guarded THEN "chat_guard" ELSE "idle"

\* The metric that counts every status but 'Closed' as open.
is_open_not_closed(status) == status # "Closed"

\* df['status'] == 'Open'
is_open(status) == status = "Open"

\* df['severity'] == 'Critical'
is_critical(severity) == severity = "Critical"

\* The three metrics of display_dashboard; none for an empty frame.
dashboard_metrics(t) ==
    IF IsEmpty(t) THEN NoMetrics
    ELSE [shown |-> TRUE,
          total |-> Len(t.rows),
          open |-> IF "status" \in t.cols
                   THEN Cardinality({i \in 1..Len(t.rows) : is_open(t.rows[i].status)})
                   ELSE 0,
          critical |-> IF "severity" \in t.cols
                       THEN Cardinality({i \in 1..Len(t.rows) : is_critical(t.rows[i].severity)})
                       ELSE 0]

\* Row a comes before row b in descending timestamp order; rows without a
\* timestamp come last.
Before(a, b) == a.timestamp # NaN /\ (b.timestamp = NaN \/ a.timestamp > b.timestamp)

RECURSIVE Insert(_, _)
Insert(r, sorted) ==
    IF sorted = <<>> THEN <<r>>
    ELSE IF Before(Head(sorted), r) THEN <<Head(sorted)>> \o Insert(r, Tail(sorted))
         ELSE <<r>> \o sorted

\* The table shown as the frame stores it.
sort_values_none(rows) == rows

\* df.sort_values(by='timestamp', ascending=False); rows with equal
\* timestamps keep their order.
RECURSIVE sort_values(_)
sort_values(rows) ==
    IF rows = <<>> THEN <<>> ELSE Insert(Head(rows), sort_values(Tail(rows)))

\* "All ... Data (Read)" of display_dashboard
dashboard_table(t) ==
    IF IsEmpty(t) THEN NoTable
    ELSE [shown |-> TRUE, cols |-> t.cols,
          rows |-> IF "timestamp" \in t.cols THEN sort_values(t.rows) ELSE t.rows]

\* "Current ... List (Live View)" of display_crud_form: sorted on the Cyber
\* Security and IT pages, as stored on the Data Science page.
live_view(p, t) ==
    [shown |-> TRUE, cols |-> t.cols,
     rows |-> IF p \in Guarded /\ "timestamp" \in t.cols THEN sort_values(t.rows) ELSE t.rows]

\* The radio button of the sidebar.
Views == {"dashboard", "crud"}

can_manage(t) == "id" \in t.cols /\ ~IsEmpty(t)

\* display_dashboard, or display_crud_form without a submitted form (or with
\* a form the page does not show).
Render ==
    /\ pc = "view"
    /\ \/ run.event \notin {"add", "update", "delete"}
       \/ run.event \in {"update", "delete"} /\ ~can_manage(df[run.page])
    /\ \E v \in Views :
          /\ run.event \in {"update", "delete"} => v = "crud"
          /\ run' = [run EXCEPT !.shown = @ \cup {"table"},
                                !.view = v,
                                !.metrics = IF v = "dashboard" THEN dashboard_metrics(df[run.page]) ELSE NoMetrics,
                                !.table = IF v = "dashboard" THEN dashboard_table(df[run.page])
                                          ELSE live_view(run.page, df[run.page])]
    /\ pc' = after_view
    /\ UNCHANGED <<keys, logged_in, username, df, messages, file, now, msg, ret, ops, http>>

\* display_crud_form, "Submit New ...".  The Live View below the forms shows
\* the frame display_crud_form was called with: handle_add_* has put a new
\* frame into the session state, which the next run shows.
SubmitAdd ==
    /\ pc = "view" /\ run.event = "add"
    /\ \E d \in NewData : handle_add(run.page, d)
    /\ run' = [run EXCEPT !.shown = @ \cup {"table"}, !.view = "crud",
                          !.table = live_view(run.page, df[run.page])]
    /\ pc' = after_view
    /\ UNCHANGED <<keys, logged_in, username, messages, file, http>>

\* display_crud_form, "Apply Update": the id comes from the select box
\* and the form sends the three keys.  handle_update_* changes the frame in
\* place, so the Live View shows the updated rows.
FormData == [k \in UpdateKeys |-> UpdateValue(k)]

SubmitUpdate ==
    /\ pc = "view" /\ run.event = "update" /\ can_manage(df[run.page])
    /\ \E id \in {df[run.page].rows[i].id : i \in 1..Len(df[run.page].rows)} :
          IF get_row(df[run.page], id).kind = "row"
          THEN handle_update(run.page, id, FormData)
          ELSE UNCHANGED <<df, msg, ret, now, ops>>
    /\ run' = [run EXCEPT !.shown = @ \cup {"table"}, !.view = "crud",
                          !.table = live_view(run.page, df'[run.page])]
    /\ pc' = after_view
    /\ UNCHANGED <<keys, logged_in, username, messages, file, http>>

\* display_crud_form, "Confirm Delete".  The Live View shows the frame
\* display_crud_form was called with, the deleted rows included.
SubmitDelete ==
    /\ pc = "view" /\ run.event = "delete" /\ can_manage(df[run.page])
    /\ \E id \in {df[run.page].rows[i].id : i \in 1..Len(df[run.page].rows)} :
          handle_delete(run.page, id)
    /\ run' = [run EXCEPT !.shown = @ \cup {"table"}, !.view = "crud",
                          !.table = live_view(run.page, df[run.page])]
    /\ pc' = after_view
    /\ UNCHANGED <<keys, logged_in, username, messages, file, http>>

\* "Security Check: Ensure User is Logged In"
ChatGuard ==
    /\ pc = "chat_guard"
    /\ pc' = IF LoggedIn THEN "chat" ELSE "idle"
    /\ UNCHANGED <<keys, logged_in, username, df, messages, file, now, msg, ret, ops, run, http>>

\* "Initialize Chat History", "Display Chat History", "Chat Input Handler"
History == IF "messages" \in keys THEN messages ELSE <<Greeting>>

Chat ==
    /\ pc = "chat"
    /\ keys' = keys \cup {"messages"}
    /\ IF run.event = "chat"
       THEN \E outs \in [1..MAX_RETRIES -> Outcomes] :
               LET asked == Append(History, [role |-> "user", content |-> Prompt])
                   r == get_ai_response(Prompt, asked, outs)
               IN /\ messages' = IF r.raised THEN asked
                                 ELSE Append(asked, [role |-> "assistant", content |-> r.result])
                  /\ http' = http + r.requests
                  /\ ops' = ops + 1
                  /\ run' = [run EXCEPT !.shown = @ \cup {"chat"}, !.chat = r]
       ELSE /\ messages' = History
            /\ run' = [run EXCEPT !.shown = @ \cup {"chat"}]
            /\ UNCHANGED <<http, ops>>
    /\ pc' = "idle"
    /\ UNCHANGED <<logged_in, username, df, file, now, msg, ret>>

\* Home.py: the user logs in.
Login ==
    /\ pc = "idle"
    /\ ~LoggedIn
    /\ keys' = keys \cup {"logged_in", "username"}
    /\ logged_in' = TRUE
    /\ username' = "u"
    /\ UNCHANGED <<df, messages, file, now, msg, ret, ops, pc, run, http>>

\* The CSV files in a session's DATA folder: no file, an unreadable file,
\* the file DATA/generate_tickets.py writes, and a file with timestamps but
\* without status and severity.
AppTables ==
    {u \in CsvTables : Len(u.rows) = 2 /\ "description" \in u.cols}
      \cup {[cols |-> {"id", "title", "timestamp"},
             rows |-> [i \in 1..2 |-> Project(CsvRow(i), {"id", "title", "timestamp"})]]}

AppFiles ==
    {[kind |-> "missing", table |-> EmptyDF], [kind |-> "error", table |-> EmptyDF]}
      \cup {[kind |-> "ok", table |-> t] : t \in AppTables}

\* A new session: nothing in st.session_state.
AppInit ==
    \E f \in AppFiles :
        /\ keys = {}
        /\ logged_in = FALSE
        /\ username = ""
        /\ df = [q \in Pages |-> EmptyDF]
        /\ messages = <<>>
        /\ file = [q \in Pages |-> f]
        /\ now = 30
        /\ msg = NoMsg
        /\ ret = NoRet
        /\ ops = 0
        /\ pc = "idle"
        /\ run = NoRun
        /\ http = 0

AppNext ==
    \/ StartRun
    \/ EnsureKeys
    \/ LoginGuard
    \/ LogoutButton
    \/ InitTable
    \/ Render
    \/ SubmitAdd
    \/ SubmitUpdate
    \/ SubmitDelete
    \/ ChatGuard
    \/ Chat
    \/ Login

AppSpec == AppInit /\ [][AppNext]_vars

----------------------------------------------------------------------------
(* Claims about the CRUD handlers *)

Rows(p) == df[p].rows
RowsAfter(p) == df'[p].rows

\* Every row has an id and no two rows have the same id.
DistinctIds(t) ==
    /\ \A i \in 1..Len(t.rows) : t.rows[i].id # NaN
    /\ \A i, j \in 1..Len(t.rows) : i # j => t.rows[i].id # t.rows[j].id

\* C1: ids stay unique.  Whenever the ids of a session table are pairwise
\* distinct, they are pairwise distinct after any add, update (of title,
\* severity, status) or delete, and the id add gives to the new row differs
\* from the id of every row that was already there.
C1_IdsUnique ==
    [][\A p \in Pages \cap keys :
        DistinctIds(df[p]) =>
            /\ DistinctIds(df'[p])
            /\ (\E d \in NewData : handle_add(p, d)) =>
                  /\ RowsAfter(p)[1].id # NaN
                  /\ \A i \in 1..Len(Rows(p)) : RowsAfter(p)[1].id # Rows(p)[i].id]_vars

\* An add has just run on a table with an id in every row, and the table
\* now holds three rows with three different ids.
C1_Witness ==
    \E p \in Pages \cap keys :
        /\ msg = add_msg(p)
        /\ Len(Rows(p)) >= 3
        /\ DistinctIds(df[p])

\* C2: add places the new row at the top.  After handle_add_* the row built
\* from new_data is row 0, the table has exactly one row more, and rows
\* 1..n are the previous rows 0..n-1, in order, with their values.
C2_AddOnTop ==
    [][\A p \in Pages \cap keys, d \in NewData :
        handle_add(p, d) =>
            /\ Len(RowsAfter(p)) = Len(Rows(p)) + 1
            /\ RowsAfter(p)[1].title = d.title
            /\ RowsAfter(p)[1].severity = d.severity
            /\ RowsAfter(p)[1].timestamp = now
            /\ \A i \in 1..Len(Rows(p)) : RowsAfter(p)[i + 1] = Rows(p)[i]]_vars

\* An add has just run on a table that had at least two rows.
C2_Witness ==
    \E p \in Pages \cap keys : msg = add_msg(p) /\ Len(Rows(p)) >= 3 /\ Rows(p)[1].timestamp >= 30

\* C3 (as claimed): the row add creates has the title and severity of
\* new_data, status 'Open', and as id the maximum id of the table plus one
\* when the table is non-empty and has an 'id' column, else the page's
\* default id (1000 for incidents and tickets, 1 for datasets).
C3_NewRowAsClaimed ==
    [][\A p \in Pages \cap keys, d \in NewData :
        handle_add(p, d) =>
            /\ RowsAfter(p)[1].title = d.title
            /\ RowsAfter(p)[1].severity = d.severity
            /\ RowsAfter(p)[1].status = "Open"
            /\ IF ~IsEmpty(df[p]) /\ "id" \in df[p].cols
               THEN \E i \in 1..Len(Rows(p)) :
                       /\ Rows(p)[i].id # NaN
                       /\ \A j \in 1..Len(Rows(p)) : Rows(p)[j].id # NaN => Rows(p)[j].id <= Rows(p)[i].id
                       /\ RowsAfter(p)[1].id = Rows(p)[i].id + 1
               ELSE RowsAfter(p)[1].id = (IF p = "datasets_df" THEN 1 ELSE 1000)]_vars

\* C4: update of an id some row has changes only what it is asked to.  Every
\* row with that id holds the values of updated_data in its keys and its old
\* values in every other column, every other row is unchanged, the number
\* and order of the rows is unchanged, and success is reported.
C4_UpdateFrame ==
    [][\A p \in Pages \cap keys : \A id \in IdArgs(df[p]), d \in UpdatedData :
        ((\E i \in 1..Len(Rows(p)) : EqId(Rows(p)[i].id, id)) /\ handle_update(p, id, d)) =>
            /\ Len(RowsAfter(p)) = Len(Rows(p))
            /\ \A i \in 1..Len(Rows(p)) :
                  IF EqId(Rows(p)[i].id, id)
                  THEN \A c \in NewRowCols :
                          RowsAfter(p)[i][c] = (IF c \in DOMAIN d THEN d[c] ELSE Rows(p)[i][c])
                  ELSE RowsAfter(p)[i] = Rows(p)[i]
            /\ msg'.level = "success"
            /\ msg'.text = "updated successfully"]_vars

\* An update has just succeeded on a table with rows of two different ids,
\* one of them holding the updated status.
C4_Witness ==
    \E p \in Pages \cap keys :
        /\ msg = [level |-> "success", text |-> "updated successfully"]
        /\ \E i, j \in 1..Len(Rows(p)) :
              /\ Rows(p)[i].id # NaN /\ Rows(p)[j].id # NaN /\ Rows(p)[i].id # Rows(p)[j].id
              /\ Rows(p)[i].status = "Closed" /\ Rows(p)[j].status = "Open"

\* C5: update of an id that no row of the table has leaves the session table
\* unchanged and reports an error, never success; the error is '... not
\* found for update' (in a table that has an 'id' column: without one the
\* guard of C7 answers).
C5_UpdateNotFound ==
    [][\A p \in Pages \cap keys : \A id \in IdArgs(df[p]), d \in UpdatedData :
        ((\A i \in 1..Len(Rows(p)) : ~EqId(Rows(p)[i].id, id)) /\ handle_update(p, id, d)) =>
            /\ df'[p] = df[p]
            /\ msg'.level = "error"
            /\ "id" \in df[p].cols => msg'.text = "not found for update."]_vars

\* An update of an id no row has was just refused on a table with rows.
C5_Witness ==
    \E p \in Pages \cap keys :
        /\ msg = [level |-> "error", text |-> "not found for update."]
        /\ Len(Rows(p)) >= 2

\* The rows of a sequence whose id is not the given one, in order.
RECURSIVE Others(_, _)
Others(rows, id) ==
    IF rows = <<>> THEN <<>>
    ELSE (IF EqId(rows[1].id, id) THEN <<>> ELSE <<rows[1]>>) \o Others(Tail(rows), id)

\* C6: delete removes exactly the rows whose id is the given id and keeps
\* the other rows in order with their values; it reports success if and only
\* if a row was removed; when no row has the id the rows are unchanged and
\* (in a table with an 'id' column) '... not found for deletion' is reported.
C6_Delete ==
    [][\A p \in Pages \cap keys : \A id \in IdArgs(df[p]) :
        handle_delete(p, id) =>
            /\ RowsAfter(p) = Others(Rows(p), id)
            /\ df'[p].cols = df[p].cols
            /\ msg'.level = "success" <=> Len(RowsAfter(p)) < Len(Rows(p))
            /\ (\A i \in 1..Len(Rows(p)) : ~EqId(Rows(p)[i].id, id)) =>
                  /\ RowsAfter(p) = Rows(p)
                  /\ msg'.level = "error"
                  /\ "id" \in df[p].cols => msg'.text = "not found for deletion."]_vars

\* A delete has just removed rows and left others in the table.
C6_Witness ==
    \E p \in Pages \cap keys :
        /\ msg = [level |-> "success", text |-> "deleted successfully"]
        /\ Len(Rows(p)) >= 2

\* C7: without an 'id' column in the session table, handle_update_* and
\* handle_delete_* report 'Cannot update/delete: 'id' column is missing.',
\* leave the session table unchanged and do not raise.
C7_MissingColumnGuard ==
    [][\A p \in Pages \cap keys : \A id \in IdArgs(df[p]) :
        "id" \notin df[p].cols =>
            /\ \A d \in UpdatedData :
                  handle_update(p, id, d) =>
                      /\ df'[p] = df[p]
                      /\ msg' = [level |-> "error", text |-> "Cannot update: 'id' column is missing."]
            /\ handle_delete(p, id) =>
                  /\ df'[p] = df[p]
                  /\ msg' = [level |-> "error", text |-> "Cannot delete: 'id' column is missing."]]_vars

\* A delete was just refused on a table with rows and no 'id' column.
C7_Witness ==
    \E p \in Pages \cap keys :
        /\ msg = [level |-> "error", text |-> "Cannot delete: 'id' column is missing."]
        /\ "id" \notin df[p].cols
        /\ Len(Rows(p)) >= 1

\* C8 (as claimed): get_*_row returns the first row of the table whose id is
\* the given id, returns None without raising when the id is None or no row
\* has it, and never changes the table.
C8_GetRowAsClaimed ==
    [][\A p \in Pages \cap keys : \A id \in IdArgs(df[p]) \cup {NoneId} :
        get_row_call(p, id) =>
            /\ df' = df
            /\ IF id # NoneId /\ \E i \in 1..Len(Rows(p)) : EqId(Rows(p)[i].id, id)
               THEN \E i \in 1..Len(Rows(p)) :
                       /\ EqId(Rows(p)[i].id, id)
                       /\ \A j \in 1..(i - 1) : ~EqId(Rows(p)[j].id, id)
                       /\ ret' = [kind |-> "row", row |-> Rows(p)[i]]
               ELSE ret'.kind = "none"]_vars

----------------------------------------------------------------------------
(* Claims about the login guard *)

\* C9: login guard of the Cyber Security and IT pages.  A script run that
\* starts with logged_in false or absent stops at the guard: it loads no
\* table into the session state, renders no dashboard, CRUD or chat content,
\* runs no CRUD handler, appends no chat message and sends no HTTP request.
C9_LoginGuard ==
    [][(pc # "idle" /\ run.page \in Guarded /\ ~run.logged) =>
          /\ pc' \in {"guard", "idle"}
          /\ df' = df
          /\ keys' \ {"logged_in", "username"} = keys \ {"logged_in", "username"}
          /\ run'.shown \subseteq {"login_error"}
          /\ msg' = msg /\ ret' = ret /\ ops' = ops
          /\ messages' = messages
          /\ http' = http]_vars

\* A run of a guarded page that came from a form submission or a chat
\* prompt, started logged out, has ended at the guard.
C9_Witness ==
    /\ pc = "idle"
    /\ run.page \in Guarded
    /\ run.event \in Effects
    /\ ~run.logged
    /\ run.shown = {"login_error"}

\* C10: logout.  Pressing 'Log out' sets logged_in to False and username to
\* the empty string, and for as long as logged_in stays false no run of the
\* Cyber Security or IT page is past the login guard.
C10_Logout ==
    [][/\ (pc = "logout" /\ run.event = "logout") => (logged_in' = FALSE /\ username' = "")
       /\ (~logged_in' /\ run'.page \in Guarded) => pc' \in {"idle", "ensure_keys", "guard"}]_vars

\* After a logout (a guarded page's table is in the session, so a run once
\* passed the guard) a later run of a guarded page has ended at the guard.
C10_Witness ==
    /\ pc = "idle"
    /\ "logged_in" \in keys /\ ~logged_in /\ username = ""
    /\ keys \cap Guarded # {}
    /\ run.page \in Guarded
    /\ run.event # "logout"
    /\ ~run.logged
    /\ run.shown = {"login_error"}

----------------------------------------------------------------------------
(* Claims about the initial load *)

\* C11: the table is initialised only if it does not exist.  The load assigns
\* the session table only in a run where the page's key is absent; once the
\* key is there it stays, and from then on the table changes only by the add,
\* update or delete a form of that page submits, so no rerun reloads it and
\* the effects of earlier operations stay.
C11_InitOnce ==
    [][\A p \in Pages :
          /\ p \in keys => p \in keys'
          /\ (pc = "init" /\ run.page = p /\ p \notin keys) => df'[p] = load_initial(p, file[p])
          /\ (p \notin keys /\ df'[p] # df[p]) => (pc = "init" /\ run.page = p)
          /\ (p \in keys /\ df'[p] # df[p]) =>
                (pc = "view" /\ run.page = p /\ run.event \in {"add", "update", "delete"})]_vars

\* A later run that only views the page has passed the initialisation, and
\* the session table still differs from what the load returns.
C11_Witness ==
    /\ pc = "view"
    /\ run.event = "view"
    /\ run.page \in keys
    /\ df[run.page] # load_initial(run.page, file[run.page])

\* C12 (as claimed): whenever reading the CSV file fails, because the file is
\* missing or for any other reason, the initial load returns the six-row mock
\* table, so the table a failed read leaves in the session is never empty.
C12_LoadAsClaimed ==
    [][(pc = "init" /\ run.page \notin keys /\ file[run.page].kind # "ok") =>
          /\ df'[run.page] = Mock(run.page)
          /\ ~IsEmpty(df'[run.page])]_vars

----------------------------------------------------------------------------
(* Claims about the chat helper.  run.chat is the call of get_ai_response
   the last chat prompt made. *)

\* C13 (as claimed): one call of get_ai_response sends at most MAX_RETRIES
\* (3) HTTP requests, and when every attempt fails with a request error other
\* than HTTP 401 (connection failure, timeout, non-2xx status) the call makes
\* exactly 3 attempts and returns 'Failed to get a response after several
\* tries. Check your connection or API status.'
C13_RetryAsClaimed ==
    /\ run.chat.requests <= 3
    /\ (/\ run.chat.requests > 0
        /\ \A i \in 1..Len(run.chat.met) : run.chat.met[i] \in {"500", "conn"}) =>
          /\ run.chat.requests = 3
          /\ ~run.chat.raised
          /\ run.chat.result = "Failed to get a response after several tries. Check your connection or API status."

\* C14: exponential backoff.  The k-th wait of a call (k = 0, 1) is 2^k
\* seconds, the waits are strictly increasing, and each wait lies between two
\* attempts: there are as many waits as attempts but one, so none follows the
\* last attempt or a successful attempt.
C14_Backoff ==
    /\ \A k \in 1..Len(run.chat.waits) : run.chat.waits[k] = 2 ^ (k - 1)
    /\ \A k \in 1..(Len(run.chat.waits) - 1) : run.chat.waits[k] < run.chat.waits[k + 1]
    /\ Len(run.chat.waits) <= 2
    /\ run.chat.requests > 0 => Len(run.chat.waits) = run.chat.requests - 1

\* A call has failed twice, waited 1 s and 2 s, and got its answer at the
\* third attempt.
C14_Witness ==
    /\ run.chat.met = <<"500", "conn", "ok">>
    /\ run.chat.waits = <<1, 2>>
    /\ run.chat.result = "answer"

\* C15: HTTP 401 is not retried.  The attempt that gets status 401 is the
\* last attempt of the call: the call returns 'Authentication Error: The API
\* Key is invalid or expired. Please check your key.' with no further HTTP
\* request and no wait after it.
C15_NoRetryOn401 ==
    \A i \in 1..Len(run.chat.met) :
        run.chat.met[i] = "401" =>
            /\ Len(run.chat.met) = i
            /\ run.chat.requests = i
            /\ Len(run.chat.waits) = i - 1
            /\ ~run.chat.raised
            /\ run.chat.result = "Authentication Error: The API Key is invalid or expired. Please check your key."

\* A call got HTTP 401 at its second attempt and ended there.
C15_Witness ==
    /\ run.chat.met = <<"500", "401">>
    /\ run.chat.requests = 2
    /\ run.chat.waits = <<1>>
    /\ pc = "idle"

\* C16 (as claimed): the request sent for a chat prompt holds the system
\* instruction, then the conversation history as it was before the prompt,
\* then the prompt, and the prompt occurs in it once more than in that
\* history.
C16_PayloadAsClaimed ==
    [][(pc = "chat" /\ run.event = "chat") =>
          /\ run'.chat.sent = <<SYSTEM_INSTRUCTION>> \o History \o <<[role |-> "user", content |-> Prompt]>>
          /\ Cardinality({i \in 1..Len(run'.chat.sent) : run'.chat.sent[i] = [role |-> "user", content |-> Prompt]})
                = 1 + Cardinality({i \in 1..Len(History) : History[i] = [role |-> "user", content |-> Prompt]})]_vars

----------------------------------------------------------------------------
(* Claims about what a run shows.  run.metrics and run.table are what the
   view of the run has put on the screen. *)

\* C17: dashboard counts.  For a non-empty table display_dashboard shows
\* total = number of rows, open = number of rows whose status is exactly
\* 'Open' (0 without a 'status' column), critical = number of rows whose
\* severity is exactly 'Critical' (0 without a 'severity' column), so open and
\* critical never exceed total; for an empty table it shows no metrics.
C17_DashboardCounts ==
    run.view = "dashboard" =>
        IF Len(Rows(run.page)) = 0 \/ df[run.page].cols = {}
        THEN ~run.metrics.shown
        ELSE /\ run.metrics.shown
             /\ run.metrics.total = Len(Rows(run.page))
             /\ run.metrics.open =
                   (IF "status" \in df[run.page].cols
                    THEN Cardinality({i \in 1..Len(Rows(run.page)) : Rows(run.page)[i].status = "Open"})
                    ELSE 0)
             /\ run.metrics.critical =
                   (IF "severity" \in df[run.page].cols
                    THEN Cardinality({i \in 1..Len(Rows(run.page)) : Rows(run.page)[i].severity = "Critical"})
                    ELSE 0)
             /\ run.metrics.open <= run.metrics.total
             /\ run.metrics.critical <= run.metrics.total

\* The dashboard shows the metrics of a table with open, closed and other
\* rows, some of them critical.
C17_Witness ==
    /\ run.view = "dashboard"
    /\ run.metrics.shown
    /\ run.metrics.total >= 6
    /\ run.metrics.open = 3
    /\ run.metrics.critical = 2
    /\ \E i \in 1..Len(Rows(run.page)) : Rows(run.page)[i].status = "In Progress"

\* The rows are in descending timestamp order, rows without timestamp last.
Descending(rows) ==
    \A i, j \in 1..Len(rows) :
        i < j => \/ rows[j].timestamp = NaN
                 \/ rows[i].timestamp # NaN /\ rows[i].timestamp >= rows[j].timestamp

\* Two sequences hold the same rows, each as often.
SameRows(a, b) ==
    /\ Len(a) = Len(b)
    /\ \A k \in 1..Len(a) :
          Cardinality({i \in 1..Len(a) : a[i] = a[k]}) = Cardinality({i \in 1..Len(b) : b[i] = a[k]})

----------------------------------------------------------------------------
(* Claims about the three copies of the helpers *)

====
